---- MODULE Spec2Model ----
(***************************************************************************)
(* TinyDB in-memory table: the append-only arena (src/src/mem/arena.rs),   *)
(* the skiplist over it (src/src/mem/skiplist.rs) and the byte comparator  *)
(* (src/src/util/byte.rs), as a state machine.                             *)
(*                                                                         *)
(* Conventions.                                                            *)
(*  - A usize is represented by its two's-complement representative: a     *)
(*    value v >= 0 stands for v, a value v < 0 stands for 2^64 + v.  Sums  *)
(*    and differences of representatives are exact modulo 2^64 for the     *)
(*    magnitudes that occur here; unsigned order is ULe/ULt.               *)
(*  - overflow_checks is the build profile: TRUE for a build with          *)
(*    arithmetic overflow checks (debug/test), FALSE for a release build   *)
(*    where usize arithmetic wraps.                                        *)
(*  - A node is a record [key, value, height, next]; key and value are the *)
(*    bytes its descriptors resolve to through the arena, next[l] is the   *)
(*    slot next_nodes[l-1].  Node 1 is the head sentinel; NULL is the null *)
(*    pointer.                                                             *)
(*  - The macro invoked as invarint! in skiplist.rs is read as the         *)
(*    invariant! macro of util/macros.rs: it panics when its condition is  *)
(*    false.                                                               *)
(***************************************************************************)
EXTENDS Integers, Sequences, FiniteSets, TLC

VARIABLES
    overflow_checks,  \* build profile: usize overflow panics (TRUE) or wraps
    cap,              \* AggressiveArena.mem capacity
    offset,           \* AggressiveArena.offset, the allocation cursor
    max_height,       \* SkipList.max_height
    nodes,            \* the nodes allocated so far; nodes[HEAD] is SkipList.head
    fresh,            \* the table held no key when it was handed over
    wr,               \* per writer thread: position in insert and its locals
    rd,               \* the reader thread: position in a search and its locals
    rh,               \* a caller of rand_height: loop state
    ar,               \* a direct caller of the arena: last call and its result
    mem,              \* AggressiveArena.mem: the bytes written inside the buffer
    th,               \* threads that each call alloc_bytes once, concurrently
    nd                \* a direct caller of Node::get_next / set_next: last call

vars == <<overflow_checks, cap, offset, max_height, nodes, fresh, wr, rd, rh, ar,
          mem, th, nd>>

-----------------------------------------------------------------------------
(* Program constants *)

BRANCHING == 4
MAX_HEIGHT == 12
MAX_NODE_SIZE == 10
ptr_size == 8
NULL == 0
HEAD == 1

(* Bounds of the model *)

KeyLen == 1          \* longest key, in bytes
MaxInitNodes == 2    \* most nodes in a table handed over in Init
MaxInitHeight == 2   \* tallest node in a table handed over in Init
ArenaCap == 64       \* capacity of the arena of a table
MaxCalls == 2        \* most insert calls of one writer thread
MaxRandCalls == 2    \* most rand_height calls of the sampling caller
SmallCap == 3        \* largest capacity of an arena used on its own
MaxArenaCalls == 3   \* most calls of the direct arena caller
MaxCount == 2        \* largest count passed to get
NumThreads == 3      \* threads calling alloc_bytes concurrently

Bytes == {1, 2}
Keys == UNION {[1..n -> Bytes] : n \in 0..KeyLen}
Values == {<<>>, <<1>>}
Writers == {1, 2}

-----------------------------------------------------------------------------
(* util/byte.rs *)

RECURSIVE memcmp_from(_, _, _, _)
memcmp_from(b1, b2, i, n) ==
    IF i > n THEN 0
    ELSE IF b1[i] < b2[i] THEN -1
    ELSE IF b1[i] > b2[i] THEN 1
    ELSE memcmp_from(b1, b2, i + 1, n)

memcmp(b1, b2, n) == memcmp_from(b1, b2, 1, n)

min(a, b) == IF a < b THEN a ELSE b

compare(b1, b2) ==
    IF Len(b1) = 0 /\ Len(b2) = 0 THEN "Equal"
    ELSE IF Len(b1) = 0 THEN "Less"
    ELSE IF Len(b2) = 0 THEN "Greater"
    ELSE LET x == memcmp(b1, b2, min(Len(b1), Len(b2))) IN
         IF x > 0 THEN "Greater"
         ELSE IF x = 0 THEN
             IF Len(b1) < Len(b2) THEN "Less"
             ELSE IF Len(b1) = Len(b2) THEN "Equal"
             ELSE "Greater"
         ELSE "Less"

-----------------------------------------------------------------------------
(* usize order on representatives *)

ULt(a, b) == IF (a < 0) = (b < 0) THEN a < b ELSE b < 0
ULe(a, b) == a = b \/ ULt(a, b)

-----------------------------------------------------------------------------
(* skiplist.rs: Node *)

NoNext(h) == [l \in 1..h |-> NULL]

\* Node::get_next / Node::set_next: the height check of the macro, then the
\* bounds-checked index next_nodes[height - 1]; height - 1 underflows for
\* height 0 (a panic with overflow checks, usize::MAX and an index panic
\* without them).
slot_ok(n, level) ==
    /\ level <= nodes[n].height
    /\ level - 1 >= 0
    /\ level - 1 < Len(nodes[n].next)

get_next(n, level) == nodes[n].next[level]

\* faulty variant: stores into the first slot whatever the level
set_next_first_slot(n, level, m) == [nodes EXCEPT ![n].next[1] = m]

set_next(n, level, m) == [nodes EXCEPT ![n].next[level] = m]

\* Node::key through Arena::get and Slice::from
key(n) == nodes[n].key

-----------------------------------------------------------------------------
(* skiplist.rs: the three searches, one loop iteration at a time.  A search *)
(* frame holds the locals of the running search.                            *)

key_is_less_than(k, n) ==
    IF n = NULL THEN TRUE
    ELSE compare(k, key(n)) = "Less"

NewFrame(op, k) ==
    [op |-> op, key |-> k, level |-> max_height, node |-> HEAD,
     prev |-> [l \in 1..MAX_HEIGHT |-> NULL], st |-> "run", ret |-> NULL]

IdleFrame ==
    [op |-> "none", key |-> <<>>, level |-> 1, node |-> HEAD,
     prev |-> [l \in 1..MAX_HEIGHT |-> NULL], st |-> "idle", ret |-> NULL]

find_greater_or_equal(f) ==
    IF ~slot_ok(f.node, f.level) THEN [f EXCEPT !.st = "panic"]
    ELSE LET next == get_next(f.node, f.level) IN
         IF key_is_less_than(f.key, next)
         THEN LET g == [f EXCEPT !.prev[f.level] = f.node] IN
              IF f.level = 1
              THEN [g EXCEPT !.st = "done", !.ret = next]
              ELSE [g EXCEPT !.level = f.level - 1]
         ELSE [f EXCEPT !.node = next]

\* faulty variant: stops on Greater only, so it walks past a node holding the target
find_less_than_past_equal(f) ==
    IF ~slot_ok(f.node, f.level) THEN [f EXCEPT !.st = "panic"]
    ELSE LET next == get_next(f.node, f.level) IN
         IF next = NULL \/ compare(key(next), f.key) = "Greater"
         THEN IF f.level = 1
              THEN [f EXCEPT !.st = "done", !.ret = f.node]
              ELSE [f EXCEPT !.level = f.level - 1]
         ELSE [f EXCEPT !.node = next]

find_less_than(f) ==
    IF ~slot_ok(f.node, f.level) THEN [f EXCEPT !.st = "panic"]
    ELSE LET next == get_next(f.node, f.level) IN
         IF next = NULL \/ compare(key(next), f.key) # "Less"
         THEN IF f.level = 1
              THEN [f EXCEPT !.st = "done", !.ret = f.node]
              ELSE [f EXCEPT !.level = f.level - 1]
         ELSE [f EXCEPT !.node = next]

\* faulty variant: returns at the first null successor without descending
find_last_no_descent(f) ==
    IF ~slot_ok(f.node, f.level) THEN [f EXCEPT !.st = "panic"]
    ELSE LET next == get_next(f.node, f.level) IN
         IF next = NULL
         THEN [f EXCEPT !.st = "done", !.ret = f.node]
         ELSE [f EXCEPT !.node = next]

\* faulty variant: at the end of level 1 it starts over from the head
find_last_starts_over(f) ==
    IF ~slot_ok(f.node, f.level) THEN [f EXCEPT !.st = "panic"]
    ELSE LET next == get_next(f.node, f.level) IN
         IF next = NULL
         THEN IF f.level = 1
              THEN IF f.node = HEAD
                   THEN [f EXCEPT !.st = "done", !.ret = f.node]
                   ELSE [f EXCEPT !.node = HEAD, !.level = max_height]
              ELSE [f EXCEPT !.level = f.level - 1]
         ELSE [f EXCEPT !.node = next]

find_last(f) ==
    IF ~slot_ok(f.node, f.level) THEN [f EXCEPT !.st = "panic"]
    ELSE LET next == get_next(f.node, f.level) IN
         IF next = NULL
         THEN IF f.level = 1
              THEN [f EXCEPT !.st = "done", !.ret = f.node]
              ELSE [f EXCEPT !.level = f.level - 1]
         ELSE [f EXCEPT !.node = next]

SearchStep(f) ==
    IF f.op = "find_greater_or_equal" THEN find_greater_or_equal(f)
    ELSE IF f.op = "find_less_than" THEN find_less_than(f)
    ELSE find_last(f)

SearchOps == {"find_greater_or_equal", "find_less_than", "find_last"}

-----------------------------------------------------------------------------
(* skiplist.rs: rand_height, one loop iteration *)

Samples == 0..(2 * BRANCHING - 1)

\* [height, running] after one iteration that drew sample r
rand_height(height, r) ==
    IF height < MAX_HEIGHT /\ r % BRANCHING = 0
    THEN [height |-> height + 1, running |-> TRUE]
    ELSE [height |-> height, running |-> FALSE]

-----------------------------------------------------------------------------
(* arena.rs: sizes *)

\* MAX_NODE_SIZE - (MAX_HEIGHT - height) * ptr_size, as a representative
used_node_size(height) == MAX_NODE_SIZE - (MAX_HEIGHT - height) * ptr_size

\* What alloc_node(height) does besides moving the cursor.
\*  - used_node_size underflows: a panic before fetch_add with overflow
\*    checks; without them it wraps, the split point used - height*ptr_size
\*    does not underflow, and the call hands out a node through
\*    slice::from_raw_parts_mut of a length above isize::MAX (undefined
\*    behaviour: it returns, or the process dies).
\*  - otherwise used - height*ptr_size underflows when used < height*ptr_size:
\*    a panic with overflow checks, and without them a split point above the
\*    length, on which split_at_mut panics; both after fetch_add.
alloc_node_outcomes(height, oc) ==
    IF used_node_size(height) < 0
    THEN IF oc THEN {"panic_before"} ELSE {"ok", "crash"}
    ELSE IF used_node_size(height) - height * ptr_size < 0
         THEN {"panic_after"}
         ELSE {"ok"}

\* offset.fetch_add(n): wrapping
fetch_add(n) == offset + n

\* alloc_bytes writes data.size() bytes at mem + start: inside the buffer, or
\* (a non-empty write elsewhere) undefined behaviour.
write_in_buffer(start, len) ==
    len = 0 \/ (start >= 0 /\ start + len <= cap)

alloc_bytes_outcomes(start, len) ==
    IF write_in_buffer(start, len) THEN {"ok"} ELSE {"ok", "crash"}

-----------------------------------------------------------------------------
(* arena.rs: the buffer.  mem maps the addresses inside the buffer that     *)
(* have been written to the byte they hold; an address is the distance from *)
(* mem.as_ptr().  A store outside the buffer leaves no cell: those bytes    *)
(* are not the arena's.  The bytes of a node's header fields are not        *)
(* tracked by value: each is the cell NodeByte.                             *)

NodeByte == 255
CellValues == Bytes \cup {NodeByte}
NoCells == [a \in {} |-> NodeByte]

InBuffer(a) == a >= 0 /\ a < cap

\* ptr.add(i).replace(b) for every byte of cells, from mem + start on
store(m, start, cells) ==
    IF start + Len(cells) <= 0 \/ start >= cap THEN m
    ELSE [a \in {b \in start..(start + Len(cells) - 1) : InBuffer(b)} |->
             cells[a - start + 1]] @@ m

\* #[repr(C)] struct Node on a 64-bit target: offset and size of each field
NodeFields ==
    [key_offset   |-> [at |-> 0,  size |-> 4],
     key_size     |-> [at |-> 8,  size |-> 8],
     value_offset |-> [at |-> 16, size |-> 4],
     value_size   |-> [at |-> 24, size |-> 8],
     height       |-> [at |-> 32, size |-> 8],
     next_nodes   |-> [at |-> 40, size |-> 16]]

\* mem::size_of::<Node>(): the header ends with its last field
size_of_Node == NodeFields.next_nodes.at + NodeFields.next_nodes.size

\* (*node).<field> = ... for the node at address n
store_field(m, n, fld) ==
    store(m, n + NodeFields[fld].at, [i \in 1..NodeFields[fld].size |-> NodeByte])

\* alloc_node line 78-79: the two fields it assigns; nothing else of the
\* node, and none of its slots, is written
node_mem(m, n) == store_field(store_field(m, n, "height"), n, "next_nodes")

\* Node::new line 30: key_size, after alloc_node
new_node_mem(m, n) == store_field(node_mem(m, n), n, "key_size")

\* Node::new line 31-32: the copy of the key at start, key_offset, value_size
key_mem(m, n, start, k) ==
    store_field(store_field(store(m, start, k), n, "key_offset"), n, "value_size")

\* Node::new line 33: the copy of the value at start, value_offset
value_mem(m, n, start, v) == store_field(store(m, start, v), n, "value_offset")

\* `start as u32` (line 93) and the `as usize` of the callers of get: a
\* representative v < 0 of a usize stands for 2^64 + v and truncates to the
\* u32 2^32 + v, which as a usize again is the address 2^32 + v, far above
\* every buffer of the bounds: [v, far].
as_u32(start) == start
as_usize(o) == [v |-> o, far |-> o < 0]

\* usize addition a + b passes 2^64
wraps(a, b) == (a < 0 /\ b < 0) \/ ((a < 0) # (b < 0) /\ a + b >= 0)

\* get line 97-105: the check start + count > o against the cursor o
get_check(start, far, count, o, oc) ==
    IF far THEN (IF o < 0 THEN "read" ELSE "panic")
    ELSE IF wraps(start, count) /\ oc THEN "panic"
    ELSE IF ULt(o, start + count) THEN "panic"
    ELSE "read"

\* get line 106-114: count bytes from mem + start on.  A byte inside the
\* buffer that was written is read as stored; a byte never written, or one
\* outside the buffer, is undefined behaviour: any byte, or (outside the
\* buffer) the process dies.
get_outcomes(start, far, count, o, oc) ==
    IF get_check(start, far, count, o, oc) = "panic"
    THEN {[out |-> "panic", data |-> <<>>]}
    ELSE LET addr(i) == start + i - 1
             known(i) == ~far /\ addr(i) \in DOMAIN mem
             reads == {d \in [1..count -> CellValues] :
                          \A i \in 1..count : known(i) => d[i] = mem[addr(i)]}
             wild == \E i \in 1..count : far \/ ~InBuffer(addr(i))
         IN {[out |-> "ok", data |-> d] : d \in reads}
            \cup (IF wild THEN {[out |-> "crash", data |-> <<>>]} ELSE {})

\* has_room_for line 118: size() - memory_used() >= size
has_room_for(size, oc) ==
    IF ULt(cap, offset) /\ oc THEN "panic"
    ELSE IF ULe(size, cap - offset) THEN "true"
    ELSE "false"

-----------------------------------------------------------------------------
(* Tables.  SkipList::new gives max_height 1 and a head of MAX_HEIGHT null   *)
(* slots.  A table that already holds keys is one linked by hand, the way    *)
(* test_find_greater_or_equal links its nodes with Node::new, set_next and   *)
(* max_height.store: node i+1 holds the i-th key in comparator order, and    *)
(* on every level l a node of height >= l points to the next such node.      *)

SortedKeys(S) ==
    CHOOSE s \in [1..Cardinality(S) -> S] :
        \A i, j \in 1..Cardinality(S) : i < j => compare(s[i], s[j]) = "Less"

Max(S) == CHOOSE x \in S : \A y \in S : y <= x

Range(s) == {s[i] : i \in 1..Len(s)}

\* id of the first node after position i (0 for the head) of height >= l
NextAt(hs, i, l) ==
    LET later == {j \in (i + 1)..Len(hs) : hs[j] >= l} IN
    IF later = {} THEN NULL ELSE 1 + (CHOOSE j \in later : \A m \in later : j <= m)

Table(ks, hs) ==
    [n \in 1..(Len(ks) + 1) |->
        IF n = HEAD
        THEN [key |-> <<>>, value |-> <<>>, height |-> MAX_HEIGHT,
              next |-> [l \in 1..MAX_HEIGHT |-> NextAt(hs, 0, l)]]
        ELSE [key |-> ks[n - 1], value |-> <<>>, height |-> hs[n - 1],
              next |-> [l \in 1..hs[n - 1] |-> NextAt(hs, n - 1, l)]]]

RECURSIVE SumUsed(_, _, _)
SumUsed(ks, hs, i) ==
    IF i > Len(ks) THEN 0
    ELSE used_node_size(hs[i]) + Len(ks[i]) + SumUsed(ks, hs, i + 1)

\* The cursor after the fetch_adds of the head and of every Node::new
TableOffset(ks, hs) == used_node_size(MAX_HEIGHT) + SumUsed(ks, hs, 1)

\* the buffer after Node::new(k, v, h) with the cursor at n
NodeNew(m, n, k, v, h) ==
    value_mem(key_mem(new_node_mem(m, n), n, n + used_node_size(h), k),
              n, n + used_node_size(h) + Len(k), v)

\* the cursor before the Node::new of the i-th key
OffsetBefore(ks, hs, i) ==
    TableOffset(SubSeq(ks, 1, i - 1), SubSeq(hs, 1, i - 1))

RECURSIVE Build(_, _, _, _)
Build(ks, hs, i, m) ==
    IF i > Len(ks) THEN m
    ELSE Build(ks, hs, i + 1,
               NodeNew(m, OffsetBefore(ks, hs, i), ks[i], <<>>, hs[i]))

\* The buffer after alloc_node(MAX_HEIGHT) for the head and every Node::new
TableMem(ks, hs) == Build(ks, hs, 1, node_mem(NoCells, 0))

IdleWriter ==
    [pc |-> "idle", key |-> <<>>, value |-> <<>>, f |-> IdleFrame, node |-> NULL,
     height |-> 1, mh |-> 1, new_node |-> NULL, addr |-> 0, i |-> 0, v |-> NULL,
     out |-> "none", hist |-> <<>>, set |-> {},
     snap |-> [offset |-> 0, max_height |-> 1, nodes |-> <<>>]]

IdleRand == [height |-> 1, st |-> "idle", sample |-> 0, calls |-> 0]
IdleArena ==
    [op |-> "none", size |-> 0, start |-> 0, far |-> FALSE, out |-> "none",
     calls |-> 0, data |-> <<>>, log |-> {}, height |-> 0]

Threads == 1..NumThreads
IdleThreads ==
    [t \in Threads |-> [pc |-> "idle", data |-> <<>>, start |-> 0, i |-> 0, ret |-> 0]]

IdleNode ==
    [op |-> "none", node |-> HEAD, level |-> 1, arg |-> NULL, out |-> "none",
     ret |-> NULL, snap |-> <<>>]

TableInit(mhs) ==
    /\ overflow_checks \in BOOLEAN
    /\ cap = ArenaCap
    /\ \E S \in SUBSET Keys :
         /\ Cardinality(S) <= MaxInitNodes
         /\ \E hs \in [1..Cardinality(S) -> 1..MaxInitHeight] :
              LET ks == SortedKeys(S) IN
              /\ nodes = Table(ks, hs)
              /\ offset = TableOffset(ks, hs)
              /\ mem = TableMem(ks, hs)
              /\ max_height \in {m \in mhs : \A i \in 1..Len(hs) : hs[i] <= m}
              /\ fresh = (S = {})
    /\ wr = [w \in Writers |-> IdleWriter]
    /\ rd = IdleFrame
    /\ rh = IdleRand
    /\ ar = IdleArena
    /\ th = IdleThreads
    /\ nd = IdleNode

\* max_height as hand-set to the tallest node (1 for the empty table)
Init ==
    /\ TableInit(1..MaxInitHeight)
    /\ max_height = Max({1} \cup {nodes[n].height : n \in 2..Len(nodes)})

-----------------------------------------------------------------------------
(* skiplist.rs: SkipList::insert, one shared-memory access at a time *)

W(w) == wr[w]

\* line 101-102: the call, and the load of max_height that starts the search.
\* A writer thread whose call panicked or died makes no further call; hist is
\* the keys it has called insert with, snap the table as the call found it.
Call(w, k, v) ==
    /\ W(w).pc = "idle"
    /\ Len(W(w).hist) < MaxCalls
    /\ wr' = [wr EXCEPT ![w] =
                [IdleWriter EXCEPT !.pc = "find", !.key = k, !.value = v,
                    !.f = NewFrame("find_greater_or_equal", k),
                    !.hist = Append(W(w).hist, k),
                    !.snap = [offset |-> offset, max_height |-> max_height,
                              nodes |-> nodes]]]
    /\ UNCHANGED <<overflow_checks, cap, offset, max_height, nodes, fresh, rd, rh, ar, mem, th, nd>>

\* line 102: one iteration of find_greater_or_equal
Find(w) ==
    /\ W(w).pc = "find"
    /\ LET g == find_greater_or_equal(W(w).f) IN
       wr' = [wr EXCEPT ![w].f = g,
                        ![w].node = g.ret,
                        ![w].pc = IF g.st = "done" THEN "check"
                                  ELSE IF g.st = "panic" THEN "panicked"
                                  ELSE "find",
                        ![w].out = IF g.st = "panic" THEN "panic" ELSE "none"]
    /\ UNCHANGED <<overflow_checks, cap, offset, max_height, nodes, fresh, rd, rh, ar, mem, th, nd>>

\* line 103-109: the duplicate check reads the key of the returned node, also
\* when that node is null (undefined behaviour: the process dies, or the
\* garbage compares unequal or equal).
check_outcomes(node, k) ==
    IF node = NULL THEN {"crash", "differs", "duplicate"}
    ELSE IF compare(key(node), k) # "Equal" THEN {"differs"}
    ELSE {"duplicate"}

Check(w) ==
    /\ W(w).pc = "check"
    /\ \E o \in check_outcomes(W(w).node, W(w).key) :
         wr' = [wr EXCEPT ![w].pc = IF o = "differs" THEN "rand"
                                    ELSE IF o = "crash" THEN "crashed"
                                    ELSE "panicked",
                          ![w].out = IF o = "differs" THEN "none" ELSE o,
                          ![w].height = 1]
    /\ UNCHANGED <<overflow_checks, cap, offset, max_height, nodes, fresh, rd, rh, ar, mem, th, nd>>

\* line 111: rand_height, one iteration
Rand(w) ==
    /\ W(w).pc = "rand"
    /\ \E r \in Samples :
         LET x == rand_height(W(w).height, r) IN
         wr' = [wr EXCEPT ![w].height = x.height,
                          ![w].pc = IF x.running THEN "rand" ELSE "load_mh"]
    /\ UNCHANGED <<overflow_checks, cap, offset, max_height, nodes, fresh, rd, rh, ar, mem, th, nd>>

\* faulty variant: goes on to the store whatever the sampled height is
LoadMaxHeight_always_store(w) ==
    /\ W(w).pc = "load_mh"
    /\ wr' = [wr EXCEPT ![w].mh = max_height, ![w].pc = "store_mh"]
    /\ UNCHANGED <<overflow_checks, cap, offset, max_height, nodes, fresh, rd, rh, ar, mem, th, nd>>

\* line 112-113
LoadMaxHeight(w) ==
    /\ W(w).pc = "load_mh"
    /\ wr' = [wr EXCEPT ![w].mh = max_height,
                        ![w].pc = IF W(w).height > max_height
                                  THEN "store_mh" ELSE "alloc_node"]
    /\ UNCHANGED <<overflow_checks, cap, offset, max_height, nodes, fresh, rd, rh, ar, mem, th, nd>>

\* line 114-117: prev[i] = head for i in max_height..height, then the store
StoreMaxHeight(w) ==
    /\ W(w).pc = "store_mh"
    /\ max_height' = W(w).height
    /\ wr' = [wr EXCEPT ![w].f.prev =
                  [l \in 1..MAX_HEIGHT |->
                      IF l - 1 >= W(w).mh /\ l - 1 < W(w).height
                      THEN HEAD ELSE W(w).f.prev[l]],
                        ![w].pc = "alloc_node"]
    /\ UNCHANGED <<overflow_checks, cap, offset, nodes, fresh, rd, rh, ar, mem, th, nd>>

\* line 119, Node::new line 28-30: arena.alloc_node(height), then key_size
alloc_node(w) ==
    /\ W(w).pc = "alloc_node"
    /\ \E o \in alloc_node_outcomes(W(w).height, overflow_checks) :
         /\ offset' = IF o = "panic_before" THEN offset
                      ELSE fetch_add(used_node_size(W(w).height))
         /\ nodes' = IF o = "ok"
                     THEN Append(nodes, [key |-> <<>>, value |-> <<>>,
                                         height |-> W(w).height,
                                         next |-> NoNext(W(w).height)])
                     ELSE nodes
         /\ wr' = [wr EXCEPT ![w].pc = IF o = "ok" THEN "alloc_key"
                                       ELSE IF o = "crash" THEN "crashed"
                                       ELSE "panicked",
                             ![w].out = IF o = "ok" THEN "none"
                                        ELSE IF o = "crash" THEN "crash"
                                        ELSE "panic",
                             ![w].new_node = IF o = "ok" THEN Len(nodes) + 1 ELSE NULL,
                             ![w].addr = offset]
         /\ mem' = IF o = "ok" THEN new_node_mem(mem, offset) ELSE mem
    /\ UNCHANGED <<overflow_checks, cap, max_height, fresh, rd, rh, ar, th, nd>>

\* Node::new line 30-33: arena.alloc_bytes(key), then arena.alloc_bytes(value)
alloc_bytes(w) ==
    /\ W(w).pc \in {"alloc_key", "alloc_value"}
    /\ LET data == IF W(w).pc = "alloc_key" THEN W(w).key ELSE W(w).value IN
       \E o \in alloc_bytes_outcomes(offset, Len(data)) :
         /\ offset' = fetch_add(Len(data))
         /\ nodes' = IF o # "ok" THEN nodes
                     ELSE IF W(w).pc = "alloc_key"
                          THEN [nodes EXCEPT ![W(w).new_node].key = data]
                          ELSE [nodes EXCEPT ![W(w).new_node].value = data]
         /\ wr' = [wr EXCEPT ![w].pc = IF o # "ok" THEN "crashed"
                                       ELSE IF W(w).pc = "alloc_key" THEN "alloc_value"
                                       ELSE "splice_load",
                             ![w].out = IF o # "ok" THEN "crash" ELSE "none",
                             ![w].i = 0]
         /\ mem' = IF o # "ok" THEN mem
                   ELSE IF W(w).pc = "alloc_key"
                        THEN key_mem(mem, W(w).addr, offset, data)
                        ELSE value_mem(mem, W(w).addr, offset, data)
    /\ UNCHANGED <<overflow_checks, cap, max_height, fresh, rd, rh, ar, th, nd>>

\* line 121-124: for i in 0..height, three accesses per iteration:
\*   the load   (*(prev[i])).get_next(i)
\*   the store  (*new_node).set_next(i, <loaded>)
\*   the store  (*(prev[i])).set_next(i, new_node)
\* prev[i] is the array element i (level i + 1); the level handed to
\* get_next and set_next is i itself.
\* faulty variant: the level of array element i
splice_level_of_element(i) == i + 1

splice_level(i) == i

Splice(w) ==
    /\ W(w).pc \in {"splice_load", "splice_link", "splice_publish"}
    /\ LET i == W(w).i
           p == W(w).f.prev[i + 1]
           l == splice_level(i)
           n == IF W(w).pc = "splice_link" THEN W(w).new_node ELSE p
       IN
       IF n = NULL
       THEN \* a null prev[i] is dereferenced: undefined behaviour
            /\ wr' = [wr EXCEPT ![w].pc = "crashed", ![w].out = "crash"]
            /\ nodes' = nodes
       ELSE IF ~slot_ok(n, l)
       THEN /\ wr' = [wr EXCEPT ![w].pc = "panicked", ![w].out = "panic"]
            /\ nodes' = nodes
       ELSE IF W(w).pc = "splice_load"
       THEN /\ wr' = [wr EXCEPT ![w].v = get_next(p, l), ![w].pc = "splice_link"]
            /\ nodes' = nodes
       ELSE IF W(w).pc = "splice_link"
       THEN /\ nodes' = set_next(W(w).new_node, l, W(w).v)
            /\ wr' = [wr EXCEPT ![w].pc = "splice_publish",
                                ![w].set = W(w).set \cup {l}]
       ELSE /\ nodes' = set_next(p, l, W(w).new_node)
            /\ wr' = [wr EXCEPT ![w].i = i + 1,
                                ![w].pc = IF i + 1 < W(w).height
                                          THEN "splice_load" ELSE "idle",
                                ![w].out = IF i + 1 < W(w).height
                                           THEN "none" ELSE "ok"]
    /\ UNCHANGED <<overflow_checks, cap, offset, max_height, fresh, rd, rh, ar, mem, th, nd>>

InsertSteps(w) ==
    \/ Find(w)
    \/ Check(w)
    \/ Rand(w)
    \/ LoadMaxHeight(w)
    \/ StoreMaxHeight(w)
    \/ alloc_node(w)
    \/ alloc_bytes(w)
    \/ Splice(w)

insert(w) ==
    \/ \E k \in Keys, v \in Values : Call(w, k, v)
    \/ InsertSteps(w)

Next == insert(1)

Spec == Init /\ [][Next]_vars

-----------------------------------------------------------------------------
(* A reader thread: one of the three searches, one loop iteration (one      *)
(* get_next load) at a time.                                                *)

\* the call, and the load of max_height (line 133, 156, 177)
ReadCall(op, k) ==
    /\ rd.st # "run"
    /\ rd' = NewFrame(op, k)
    /\ UNCHANGED <<overflow_checks, cap, offset, max_height, nodes, fresh, wr, rh, ar, mem, th, nd>>

ReadStep ==
    /\ rd.st = "run"
    /\ rd' = SearchStep(rd)
    /\ UNCHANGED <<overflow_checks, cap, offset, max_height, nodes, fresh, wr, rh, ar, mem, th, nd>>

reader ==
    \/ \E op \in SearchOps, k \in Keys : ReadCall(op, k)
    \/ ReadStep

\* The searches alone, on every table of the bounds, also one whose
\* max_height an insert has raised above its tallest node (line 117).
SearchInit == TableInit(1..MAX_HEIGHT)
SearchNext == reader
SpecSearch == SearchInit /\ [][SearchNext]_vars

\* One writer and one reader.
ConcNext == insert(1) \/ reader
SpecConc == Init /\ [][ConcNext]_vars

\* One writer, inserting empty values, and one reader, as two threads that
\* the scheduler keeps running: a call that can take a step eventually takes
\* one.
LiveNext ==
    \/ \E k \in Keys : Call(1, k, <<>>)
    \/ InsertSteps(1)
    \/ reader

SpecLive ==
    /\ Init
    /\ [][LiveNext]_vars
    /\ WF_vars(ReadStep)
    /\ WF_vars(InsertSteps(1))

\* Two writers with no mutual exclusion, inserting distinct keys with empty
\* values into a freshly constructed table.
WritersInit == Init /\ fresh
WritersNext ==
    \E w \in Writers :
        \/ \E k \in Keys : /\ \A u \in Writers \ {w} : k \notin Range(W(u).hist)
                           /\ Call(w, k, <<>>)
        \/ InsertSteps(w)
SpecWriters == WritersInit /\ [][WritersNext]_vars

-----------------------------------------------------------------------------
(* A caller of rand_height alone (skiplist.rs line 210-220) *)

RandInit ==
    /\ overflow_checks \in BOOLEAN
    /\ cap = ArenaCap
    /\ nodes = Table(<<>>, <<>>)
    /\ offset = TableOffset(<<>>, <<>>)
    /\ mem = TableMem(<<>>, <<>>)
    /\ max_height = 1
    /\ fresh = TRUE
    /\ wr = [w \in Writers |-> IdleWriter]
    /\ rd = IdleFrame
    /\ rh = IdleRand
    /\ ar = IdleArena
    /\ th = IdleThreads
    /\ nd = IdleNode

\* let mut height = 1
RandCall ==
    /\ rh.st # "run"
    /\ rh.calls < MaxRandCalls
    /\ rh' = [rh EXCEPT !.height = 1, !.st = "run", !.calls = rh.calls + 1]
    /\ UNCHANGED <<overflow_checks, cap, offset, max_height, nodes, fresh, wr, rd, ar, mem, th, nd>>

\* one iteration of the loop; the break returns height
RandIter ==
    /\ rh.st = "run"
    /\ \E r \in Samples :
         LET x == rand_height(rh.height, r) IN
         rh' = [rh EXCEPT !.height = x.height, !.sample = r,
                          !.st = IF x.running THEN "run" ELSE "done"]
    /\ UNCHANGED <<overflow_checks, cap, offset, max_height, nodes, fresh, wr, rd, ar, mem, th, nd>>

RandNext == RandCall \/ RandIter
SpecRand == RandInit /\ [][RandNext]_vars

-----------------------------------------------------------------------------
(* A direct caller of the arena (arena.rs): AggressiveArena::new(cap), then *)
(* alloc_bytes and alloc_node calls.  A call that panics or kills the       *)
(* process is the caller's last.                                            *)

ArenaInit ==
    /\ overflow_checks \in BOOLEAN
    /\ cap \in 1..SmallCap
    /\ offset = 0
    /\ mem = NoCells
    /\ nodes = <<>>
    /\ max_height = 1
    /\ fresh = TRUE
    /\ wr = [w \in Writers |-> IdleWriter]
    /\ rd = IdleFrame
    /\ rh = IdleRand
    /\ ar = IdleArena
    /\ th = IdleThreads
    /\ nd = IdleNode

ArenaLive == ar.out \notin {"panic", "crash"} /\ ar.calls < MaxArenaCalls

\* the record of a call; height is the argument of an alloc_node call
ArenaCalled(op, start, far, size, out, data, log) ==
    [op |-> op, size |-> size, start |-> start, far |-> far, out |-> out,
     calls |-> ar.calls + 1, data |-> data, log |-> log, height |-> 0]

\* alloc_bytes(data), line 84-94; log keeps what the calls returned
ArenaAllocBytes(data) ==
    /\ ArenaLive
    /\ \E o \in alloc_bytes_outcomes(offset, Len(data)) :
         /\ ar' = ArenaCalled("alloc_bytes", offset, FALSE, Len(data), o, data,
                     IF o = "ok"
                     THEN ar.log \cup {[o |-> as_u32(offset), d |-> data]}
                     ELSE ar.log)
         /\ mem' = IF o = "ok" THEN store(mem, offset, data) ELSE mem
    /\ offset' = fetch_add(Len(data))
    /\ UNCHANGED <<overflow_checks, cap, max_height, nodes, fresh, wr, rd, rh, th, nd>>

\* alloc_node(height), line 59-82
ArenaAllocNode(height) ==
    /\ ArenaLive
    /\ \E o \in alloc_node_outcomes(height, overflow_checks) :
         /\ ar' = [ArenaCalled("alloc_node", offset, FALSE, used_node_size(height),
                        IF o \in {"panic_before", "panic_after"} THEN "panic" ELSE o,
                        <<>>, ar.log)
                    EXCEPT !.height = height]
         /\ offset' = IF o = "panic_before" THEN offset
                      ELSE fetch_add(used_node_size(height))
         /\ nodes' = IF o = "ok"
                     THEN Append(nodes, [key |-> <<>>, value |-> <<>>,
                                         height |-> height, next |-> NoNext(height)])
                     ELSE nodes
         /\ mem' = IF o = "ok" THEN node_mem(mem, offset) ELSE mem
    /\ UNCHANGED <<overflow_checks, cap, max_height, fresh, wr, rd, rh, th, nd>>

\* get(start, count), line 96-115
ArenaGet(start, far, count) ==
    /\ ArenaLive
    /\ \E r \in get_outcomes(start, far, count, offset, overflow_checks) :
         ar' = ArenaCalled("get", start, far, count, r.out, r.data, ar.log)
    /\ UNCHANGED <<overflow_checks, cap, offset, max_height, nodes, fresh, wr, rd, rh,
                   mem, th, nd>>

\* has_room_for(size), line 117-120
ArenaHasRoomFor(size) ==
    /\ ArenaLive
    /\ ar' = ArenaCalled("has_room_for", offset, FALSE, size,
                has_room_for(size, overflow_checks), <<>>, ar.log)
    /\ UNCHANGED <<overflow_checks, cap, offset, max_height, nodes, fresh, wr, rd, rh,
                   mem, th, nd>>

\* get is called with any small start, with usize::MAX (the representative
\* -1), and with the offsets alloc_bytes returned.
ArenaNext ==
    \/ \E data \in Keys \cup Values : ArenaAllocBytes(data)
    \/ \E height \in 1..MAX_HEIGHT : ArenaAllocNode(height)
    \/ \E start \in (0 - 1)..(SmallCap + 1), count \in 0..MaxCount :
          ArenaGet(start, FALSE, count)
    \/ \E e \in ar.log : ArenaGet(as_usize(e.o).v, as_usize(e.o).far, Len(e.d))
    \/ \E size \in 0..MaxCount : ArenaHasRoomFor(size)

SpecArena == ArenaInit /\ [][ArenaNext]_vars

-----------------------------------------------------------------------------
(* Threads sharing one arena, each calling alloc_bytes once (arena.rs line  *)
(* 84-94, the threads of test_alloc_bytes_concurrency): the fetch_add, then *)
(* the copy loop one byte at a time, then the return of `start as u32`.     *)

\* line 85
ThreadFetchAdd(t, data) ==
    /\ th[t].pc = "idle"
    /\ th' = [th EXCEPT ![t].pc = "copy", ![t].data = data, ![t].start = offset,
                        ![t].i = 0]
    /\ offset' = fetch_add(Len(data))
    /\ UNCHANGED <<overflow_checks, cap, max_height, nodes, fresh, wr, rd, rh, ar,
                   mem, nd>>

\* line 88-91: one iteration of the loop, or line 93 when the loop is over
ThreadCopy(t) ==
    /\ th[t].pc = "copy"
    /\ IF th[t].i < Len(th[t].data)
       THEN \E o \in alloc_bytes_outcomes(th[t].start + th[t].i, 1) :
              /\ th' = [th EXCEPT ![t].i = th[t].i + 1,
                                  ![t].pc = IF o = "ok" THEN "copy" ELSE "crashed"]
              /\ mem' = IF o = "ok"
                        THEN store(mem, th[t].start + th[t].i,
                                   <<th[t].data[th[t].i + 1]>>)
                        ELSE mem
       ELSE /\ th' = [th EXCEPT ![t].pc = "done", ![t].ret = as_u32(th[t].start)]
            /\ mem' = mem
    /\ UNCHANGED <<overflow_checks, cap, offset, max_height, nodes, fresh, wr, rd, rh,
                   ar, nd>>

\* one more thread calls get (line 96-115) once, at any moment
ThreadGet(start, count) ==
    /\ ar.calls = 0
    /\ ArenaGet(start, FALSE, count)

BytesNext ==
    \/ \E t \in Threads :
          \/ \E data \in Keys \cup Values : ThreadFetchAdd(t, data)
          \/ ThreadCopy(t)
    \/ \E start \in 0..SmallCap, count \in 0..MaxCount : ThreadGet(start, count)

SpecBytes == ArenaInit /\ [][BytesNext]_vars

-----------------------------------------------------------------------------
(* A direct caller of Node::get_next / Node::set_next (skiplist.rs line     *)
(* 38-57) on a node of a table, with any level: one call.                   *)

NodeGetNext(n, level) ==
    /\ nd.op = "none"
    /\ nd' = [op |-> "get_next", node |-> n, level |-> level, arg |-> NULL,
              out |-> IF slot_ok(n, level) THEN "ok" ELSE "panic",
              ret |-> IF slot_ok(n, level) THEN get_next(n, level) ELSE NULL,
              snap |-> nodes]
    /\ UNCHANGED <<overflow_checks, cap, offset, max_height, nodes, fresh, wr, rd, rh,
                   ar, mem, th>>

NodeSetNext(n, level, m) ==
    /\ nd.op = "none"
    /\ nd' = [op |-> "set_next", node |-> n, level |-> level, arg |-> m,
              out |-> IF slot_ok(n, level) THEN "ok" ELSE "panic",
              ret |-> NULL, snap |-> nodes]
    /\ nodes' = IF slot_ok(n, level) THEN set_next(n, level, m) ELSE nodes
    /\ UNCHANGED <<overflow_checks, cap, offset, max_height, fresh, wr, rd, rh,
                   ar, mem, th>>

NodeNext ==
    \E n \in 1..Len(nodes), level \in 0..(MAX_HEIGHT + 1) :
        \/ NodeGetNext(n, level)
        \/ \E m \in 0..Len(nodes) : NodeSetNext(n, level, m)

SpecNode == Init /\ [][NodeNext]_vars

-----------------------------------------------------------------------------
(* What the claims speak of *)

RECURSIVE ChainFrom(_, _, _, _)
ChainFrom(ns, n, l, fuel) ==
    IF n = NULL \/ fuel = 0 THEN <<>>
    ELSE <<n>> \o ChainFrom(ns, ns[n].next[l], l, fuel - 1)

\* the nodes reached from the head by level-l links, in order
Chain(ns, l) == ChainFrom(ns, ns[HEAD].next[l], l, Len(ns))

Level1Keys(ns) == [i \in 1..Len(Chain(ns, 1)) |-> ns[Chain(ns, 1)[i]].key]

StoredKeys(ns) == {ns[Chain(ns, 1)[i]].key : i \in 1..Len(Chain(ns, 1))}

Ended(w) == W(w).pc \in {"idle", "panicked", "crashed"} /\ Len(W(w).hist) > 0

\* C1: after insert calls with pairwise distinct keys on a freshly constructed
\* table, the level-1 chain from the head holds exactly the inserted keys, each
\* once, in strictly increasing comparator order.  (Stated of calls that got
\* as far as allocating their node.)
C1_Level1HoldsInsertedKeys ==
    (/\ fresh
     /\ Ended(1)
     /\ W(1).pc # "crashed"
     /\ W(1).new_node # NULL
     /\ Cardinality(Range(W(1).hist)) = Len(W(1).hist))
    => Level1Keys(nodes) = SortedKeys(Range(W(1).hist))

\* C2: an insert of a key the table already holds fails as a duplicate and
\* leaves the arena cursor, the maximum height and every successor link as the
\* call found them.  (Stated of calls whose search returned a node, so that
\* the duplicate check reads a real key.)
C2_DuplicateRejectedUnchanged ==
    (/\ Ended(1)
     /\ W(1).node # NULL
     /\ W(1).key \in StoredKeys(W(1).snap.nodes))
    => /\ W(1).out = "duplicate"
       /\ offset = W(1).snap.offset
       /\ max_height = W(1).snap.max_height
       /\ \A n \in 1..Len(W(1).snap.nodes) : nodes[n].next = W(1).snap.nodes[n].next

Stored == Range(Chain(nodes, 1))

\* the first stored node, in key order, whose key is not less than k
FirstGreaterOrEqual(k) ==
    LET ge == {n \in Stored : compare(key(n), k) # "Less"} IN
    IF ge = {} THEN NULL
    ELSE CHOOSE n \in ge : \A m \in ge : compare(key(n), key(m)) # "Greater"

\* the stored node of the greatest key less than k, or the head
LastLessThan(k) ==
    LET lt == {n \in Stored : compare(key(n), k) = "Less"} IN
    IF lt = {} THEN HEAD
    ELSE CHOOSE n \in lt : \A m \in lt : compare(key(n), key(m)) # "Less"

\* the stored node of the greatest key, or the head
Last ==
    IF Stored = {} THEN HEAD
    ELSE CHOOSE n \in Stored : \A m \in Stored : compare(key(n), key(m)) # "Less"

\* C3: find_greater_or_equal(key) returns the first node in level-1 order
\* whose key is greater than or equal to the target, the node holding the
\* target itself when it is stored, and no node when every key is less.
C3_ReturnsFirstGreaterOrEqual ==
    (rd.op = "find_greater_or_equal" /\ rd.st = "done")
    => rd.ret = FirstGreaterOrEqual(rd.key)

C5_ReturnsLast ==
    rd.op = "find_last"
    => /\ rd.st # "panic"
       /\ rd.st = "done" => (rd.ret = Last /\ get_next(rd.ret, 1) = NULL)

C5_Witness ==
    /\ rd.op = "find_last" /\ rd.st = "done"
    /\ rd.ret # HEAD
    /\ max_height > 1
    /\ Cardinality(Stored) > 1

Least(S) == CHOOSE x \in S : \A y \in S : compare(x, y) # "Greater"
Greatest(S) == CHOOSE x \in S : \A y \in S : compare(x, y) # "Less"

\* ret is the right answer of search op for target over the key set S
RightFor(op, target, ret, S) ==
    LET ge == {x \in S : compare(x, target) # "Less"}
        lt == {x \in S : compare(x, target) = "Less"}
        holds(T) == ret \notin {NULL, HEAD} /\ key(ret) = Greatest(T)
    IN
    IF op = "find_greater_or_equal"
    THEN IF ge = {} THEN ret = NULL
         ELSE ret \notin {NULL, HEAD} /\ key(ret) = Least(ge)
    ELSE IF op = "find_less_than"
    THEN IF lt = {} THEN ret = HEAD ELSE holds(lt)
    ELSE IF S = {} THEN ret = HEAD ELSE holds(S)

Called(w) == Len(W(w).hist) > 0
KeysBefore == StoredKeys(W(1).snap.nodes)
KeysWith == KeysBefore \cup {W(1).key}

\* C6: with one writer executing insert(k) and a reader interleaved with it
\* load by load, every search result is right for the key set without k or
\* for the key set with k, and the reader never stands on the new node at a
\* level whose slot of that node has not been stored yet.
C6_ReaderSeesOldOrNew ==
    Called(1) =>
       /\ rd.st # "panic"
       /\ rd.st = "done" =>
             \/ RightFor(rd.op, rd.key, rd.ret, KeysBefore)
             \/ RightFor(rd.op, rd.key, rd.ret, KeysWith)
       /\ (rd.st = "run" /\ W(1).new_node # NULL /\ rd.node = W(1).new_node)
             => rd.level \in W(1).set

Level1Sorted ==
    \A i, j \in 1..Len(Level1Keys(nodes)) :
        i < j => compare(Level1Keys(nodes)[i], Level1Keys(nodes)[j]) = "Less"

Corrupted ==
    \/ ~(Level1Sorted /\ {W(1).key, W(2).key} \subseteq StoredKeys(nodes))
    \/ \E n \in Stored : nodes[n].height > max_height

C8_HeightBelowMax ==
    rh.st = "done" => (1 <= rh.height /\ rh.height < MAX_HEIGHT)

\* cursor + size is above the capacity, as usize values
Exceeds(start, size) == start < 0 \/ size < 0 \/ start + size > cap

\* C9: alloc_bytes and alloc_node fail with the OutOfSpace error, before the
\* cursor is advanced, whenever the cursor plus the requested size would
\* exceed the capacity.
C9_ExhaustionReported ==
    (ar.op \in {"alloc_bytes", "alloc_node"} /\ Exceeds(ar.start, ar.size))
    => (ar.out = "OutOfSpace" /\ offset = ar.start)

\* C10: the cursor is at most the capacity in every state, and no step
\* decreases it.
C10_CursorBoundedMonotone ==
    /\ ULe(offset, cap)
    /\ [][ULe(offset', cap) /\ ULe(offset, offset')]_vars

-----------------------------------------------------------------------------
(* Termination *)

\* C24: every call of find_greater_or_equal, find_less_than, find_last,
\* rand_height and insert eventually returns or fails, the searches also
\* while a single writer's insert runs: a running search ends, and a running
\* insert ends, and with it the find_greater_or_equal and the rand_height
\* loop inside it.
C24_CallsEnd ==
    /\ (rd.st = "run") ~> (rd.st \in {"done", "panic"})
    /\ (W(1).pc # "idle") ~> (W(1).pc \in {"idle", "panicked", "crashed"})

C24_Witness ==
    /\ rd.st = "done"
    /\ rd.op = "find_last"
    /\ rd.ret # HEAD
    /\ Cardinality(Stored) > 1
    /\ Ended(1)
    /\ W(1).new_node # NULL
    /\ W(1).height > 1

-----------------------------------------------------------------------------
(* The arena's buffer *)

AllDone == \A t \in Threads : th[t].pc = "done"

\* the addresses of the region a thread's call returned
Region(t) ==
    {as_usize(th[t].ret).v + i - 1 : i \in 1..Len(th[t].data)}

\* the buffer holds the payload d at the returned offset o
Holds(o, d) ==
    /\ ~as_usize(o).far
    /\ \A i \in 1..Len(d) :
          /\ (as_usize(o).v + i - 1) \in DOMAIN mem
          /\ mem[as_usize(o).v + i - 1] = d[i]

\* C11: when concurrent alloc_bytes calls of independent threads have all
\* returned, the returned regions [offset, offset+len) are pairwise disjoint
\* and each holds exactly the payload of the call that returned it.
C11_RegionsDisjointAndHold ==
    AllDone =>
       /\ \A t, u \in Threads : t # u => Region(t) \cap Region(u) = {}
       /\ \A t \in Threads : Holds(th[t].ret, th[t].data)

\* start + count is above the cursor o, as numbers
PastCursor(start, far, count, o) ==
    IF far THEN o >= 0
    ELSE wraps(start, count) \/ ULt(o, start + count)

\* C12: get(offset, length) fails with a hard error whenever offset + length
\* exceeds the cursor, and a get that returns has read no byte at or above
\* the cursor.
C12_GetBounded ==
    ar.op = "get" =>
       /\ PastCursor(ar.start, ar.far, ar.size, offset) => ar.out = "panic"
       /\ ar.out = "ok" =>
             \A i \in 1..ar.size :
                ~PastCursor(ar.start, ar.far, i, offset)

\* C13: once alloc_bytes(d) has returned the offset o, every later
\* get(o, len(d)) returns exactly d, whatever alloc_bytes and alloc_node
\* calls came in between.
C13_StoredBytesStable ==
    \A e \in ar.log :
       (/\ ar.op = "get"
        /\ ar.start = as_usize(e.o).v /\ ar.far = as_usize(e.o).far
        /\ ar.size = Len(e.d))
       => (ar.out = "ok" /\ ar.data = e.d)

\* C14: an allocation of n bytes (alloc_bytes of a payload of length n) that
\* directly follows a has_room_for(n) that returned false fails with
\* exhaustion, and has_room_for does not move the cursor.
C14_NoRoomThenExhausted ==
    [][/\ (/\ ar.op = "has_room_for" /\ ar.out = "false"
           /\ ar'.calls # ar.calls
           /\ ar'.op = "alloc_bytes"
           /\ ar'.size = ar.size)
          => ar'.out = "OutOfSpace"
       /\ (ar'.calls # ar.calls /\ ar'.op = "has_room_for") => offset' = offset
      ]_vars

\* every byte of the buffer below the cursor has been written
BelowCursorInitialised ==
    \A a \in 0..(cap - 1) : ULt(a, offset) => a \in DOMAIN mem

\* the step is a get that returned data
GetReturned ==
    ar'.calls # ar.calls /\ ar'.op = "get" /\ ar'.out = "ok"

\* C23: at every moment, the window between an allocation's cursor advance
\* and the end of its payload copy included, every byte of the arena below
\* the cursor has been initialised, and a get running concurrently with the
\* allocations that passes its bound check returns no byte that has not been
\* written yet.
C23_BelowCursorInitialised ==
    [][/\ BelowCursorInitialised'
       /\ GetReturned =>
             \A i \in 1..ar'.size : (ar'.start + i - 1) \in DOMAIN mem
      ]_vars

-----------------------------------------------------------------------------
(* The nodes of the arena *)

\* C21: for every height h in 1..=MAX_HEIGHT, alloc_node(h) advances the
\* cursor by exactly the size of the Node header plus h successor slots, and
\* the size it computes does not underflow and is not below the header size.
C21_NodeSizeIsHeaderPlusSlots ==
    (ar.op = "alloc_node" /\ ar.height \in 1..MAX_HEIGHT) =>
       /\ offset = ar.start + size_of_Node + ar.height * ptr_size
       /\ ar.size >= size_of_Node

\* the bytes of a header field of the node at address n
FieldCells(n, fld) ==
    {n + NodeFields[fld].at + i : i \in 0..(NodeFields[fld].size - 1)}

\* the bytes of the key and value descriptors of the node at address n
DescriptorCells(n) ==
    UNION {FieldCells(n, fld) :
              fld \in {"key_offset", "key_size", "value_offset", "value_size"}}

\* the bytes of the h slots of the node at address n: next_parts, the last
\* h * ptr_size bytes of the used_node_size(h) bytes from n on (line 69-70)
SlotCells(n, h) ==
    {n + used_node_size(h) - h * ptr_size + i : i \in 0..(h * ptr_size - 1)}

\* The buffer of Vec::with_capacity is uninitialised (line 41): a byte of it
\* is zero only if a store wrote it.
Initialised(cells) == \A a \in cells : InBuffer(a) => a \in DOMAIN mem

\* C22: the node returned by alloc_node(h) has declared height h, exactly h
\* successor slots, key and value descriptors (offset and size) all zero and
\* every slot denoting no successor.  (Zero and null need the bytes of the
\* descriptors and of the slots, as far as they lie in the buffer, to have
\* been written by the call.)
C22_NodeZeroInitialised ==
    (ar.op = "alloc_node" /\ ar.out = "ok") =>
       /\ nodes[Len(nodes)].height = ar.height
       /\ Len(nodes[Len(nodes)].next) = ar.height
       /\ Initialised(DescriptorCells(ar.start))
       /\ Initialised(SlotCells(ar.start, ar.height))

-----------------------------------------------------------------------------
(* The table under one writer *)

NoCallRunning == W(1).pc \in {"idle", "panicked", "crashed"}

MaxHeightOk ==
    /\ max_height \in 1..MAX_HEIGHT
    /\ (fresh /\ ~Called(1)) => max_height = 1
    /\ NoCallRunning => \A n \in Stored : nodes[n].height <= max_height

\* C15: max_height is 1 in a freshly constructed table, is never lowered by
\* a step of insert, stays within 1..=MAX_HEIGHT, and whenever no insert is
\* running it is at least the height of every linked node.
C15_MaxHeightInvariant ==
    /\ MaxHeightOk
    /\ [][MaxHeightOk' /\ max_height' >= max_height]_vars

C15_Witness ==
    /\ Ended(1)
    /\ W(1).new_node # NULL
    /\ max_height > W(1).snap.max_height
    /\ max_height = W(1).height
    /\ Stored # {}

-----------------------------------------------------------------------------
(* Node::get_next / Node::set_next *)

\* C16: on a node of declared height h, for every level in 1..=h get_next
\* returns the successor slot of that level and set_next stores into that
\* slot and no other; for every level outside 1..=h, in particular above h,
\* the call fails fatally and no slot is read or written.
C16_LevelRange ==
    nd.op # "none" =>
       LET h == nd.snap[nd.node].height
           inside == nd.level >= 1 /\ nd.level <= h
       IN /\ inside => nd.out = "ok"
          /\ ~inside => (nd.out = "panic" /\ nd.ret = NULL /\ nodes = nd.snap)
          /\ (inside /\ nd.op = "get_next")
                => (nd.ret = nd.snap[nd.node].next[nd.level] /\ nodes = nd.snap)
          /\ (inside /\ nd.op = "set_next")
                => nodes = [nd.snap EXCEPT ![nd.node].next[nd.level] = nd.arg]

C16_Witness ==
    /\ nd.op = "set_next"
    /\ nd.node # HEAD
    /\ nd.level > nd.snap[nd.node].height
    /\ nd.arg # nd.snap[nd.node].next[1]
    /\ nd.out = "panic"

-----------------------------------------------------------------------------
(* The predecessor array of find_greater_or_equal *)

\* the last node of the level-l chain whose key is less than k, or the head
LastLessOnLevel(l, k) ==
    LET c == Chain(nodes, l)
        lt == {i \in 1..Len(c) : compare(key(c[i]), k) = "Less"}
    IN IF lt = {} THEN HEAD ELSE c[Max(lt)]

\* C17: when find_greater_or_equal(key, prev) returns, for every level l
\* from 1 up to max_height prev[l] is the last node of level l's chain whose
\* key is strictly less than the target, or the head sentinel when that
\* level has no node with a smaller key.
C17_PrevIsLastLess ==
    (rd.op = "find_greater_or_equal" /\ rd.st = "done")
    => \A l \in 1..max_height : rd.prev[l] = LastLessOnLevel(l, rd.key)

-----------------------------------------------------------------------------
(* The splice of insert *)

\* some node's level-l slot in ns points to node m
PublishedIn(ns, m, l) ==
    \E p \in 1..Len(ns) : l <= ns[p].height /\ ns[p].next[l] = m

\* the writer's call reached the splice loop and has ended
SpliceEnded(w) ==
    /\ W(w).pc \in {"idle", "panicked"}
    /\ W(w).new_node # NULL

-----------------------------------------------------------------------------
(* The level chains *)

\* the chain c is strictly increasing by key
SortedChain(c) ==
    \A i, j \in 1..Len(c) : i < j => compare(key(c[i]), key(c[j])) = "Less"

\* position of node n in the chain c
Pos(c, n) == CHOOSE i \in 1..Len(c) : c[i] = n

\* the chain a is a subsequence of the chain b
Subsequence(a, b) ==
    /\ Range(a) \subseteq Range(b)
    /\ \A i, j \in 1..Len(a) : i < j => Pos(b, a[i]) < Pos(b, a[j])

C20_NodeOnItsLevels ==
    SpliceEnded(1) =>
       \A l \in 1..MAX_HEIGHT :
           (l <= W(1).height) <=> (W(1).new_node \in Range(Chain(nodes, l)))

-----------------------------------------------------------------------------
(* insert at the logical end *)

\* the search of the writer's call returned the logical end
ReturnedEnd(w) == W(w).f.st = "done" /\ W(w).node = NULL

\* C25: when find_greater_or_equal returns the logical end (the table is
\* empty, or the key is greater than every stored key), insert does not
\* compare with the absent node and does not fail: the call completes and
\* the new key is the last node of the level-1 chain.
C25_InsertAtEnd ==
    (Ended(1) /\ ReturnedEnd(1)) =>
       /\ W(1).out = "ok"
       /\ Len(Level1Keys(nodes)) > 0
       /\ Level1Keys(nodes)[Len(Level1Keys(nodes))] = W(1).key

====
